---- MODULE Spec2Model ----
(***************************************************************************)
(* Model of the obsidian-ai-tags plugin: the AIService request path        *)
(* (makeRequest, retryRequest, generateTags, parseResponse, tag            *)
(* reconciliation) and the plugin's analyzeTags entry point.               *)
(*                                                                         *)
(* Strings whose characters matter (tags, response texts) are sequences    *)
(* of one-character strings.  A similarity score is a fraction <<n, d>>.   *)
(***************************************************************************)
EXTENDS Integers, Sequences, FiniteSets, TLC

(***************************************************************************)
(* Bounds of the model.                                                    *)
(***************************************************************************)
MaxCands == 2
MaxExisting == 2
MaxFail == 3
MaxStrLen == 3
MaxRows == 2
MaxTests == 2

(***************************************************************************)
(* Program constants.                                                      *)
(***************************************************************************)
TIMEOUT == 30000
MAX_RETRIES == 2

(***************************************************************************)
(* Strings.                                                                *)
(***************************************************************************)
T_Golang == <<"G", "o", "l", "a", "n", "g">>
T_golang == <<"g", "o", "l", "a", "n", "g">>
T_golangs == <<"g", "o", "l", "a", "n", "g", "s">>
T_databases == <<"d", "a", "t", "a", "b", "a", "s", "e", "s">>
T_storage == <<"s", "t", "o", "r", "a", "g", "e">>
T_abcdefghij == <<"a", "b", "c", "d", "e", "f", "g", "h", "i", "j">>
T_abcdefgxyz == <<"a", "b", "c", "d", "e", "f", "g", "x", "y", "z">>

TagPool ==
    {T_Golang, T_golang, T_golangs, T_databases, T_storage,
     T_abcdefghij, T_abcdefgxyz}

TextGolangDatabases ==
    <<"G", "o", "l", "a", "n", "g", ",", "d", "a", "t", "a", "b", "a", "s", "e", "s">>
TextAiTagsGolang ==
    <<"a", "i", ",", " ", "t", "a", "g", "s", ",", " ", "g", "o", "l", "a", "n", "g">>
TextMachineLearning ==
    <<"m", "a", "c", "h", "i", "n", "e", " ", "l", "e", "a", "r", "n", "i", "n", "g",
      ",", " ", "n", "l", "p">>
TextBlank == <<" ", ",", " ">>

BodyTexts ==
    {TextGolangDatabases, TextAiTagsGolang, TextMachineLearning, TextBlank, <<>>}

SeqsUpTo(S, n) == UNION {[1..k -> S] : k \in 0..n}

(***************************************************************************)
(* String.prototype.toLowerCase, trim, split(','), replace(/\s+/g, '').    *)
(***************************************************************************)
UpperToLower == ("G" :> "g") @@ ("A" :> "a") @@ ("D" :> "d") @@ ("S" :> "s")

\* toLowerCase leaving every character as it is
toLowerCase_Identity(s) == s

toLowerCase(s) ==
    [k \in 1..Len(s) |-> IF s[k] \in DOMAIN UpperToLower THEN UpperToLower[s[k]] ELSE s[k]]

IsSpace(c) == c \in {" ", "\t", "\n"}

RECURSIVE trimStart(_)
trimStart(s) ==
    IF s # <<>> /\ IsSpace(Head(s)) THEN trimStart(Tail(s)) ELSE s

RECURSIVE trimEnd(_)
trimEnd(s) ==
    IF s # <<>> /\ IsSpace(s[Len(s)]) THEN trimEnd(SubSeq(s, 1, Len(s) - 1)) ELSE s

trim(s) == trimEnd(trimStart(s))

\* s.split(','): the pieces between commas; the empty string gives one empty piece.
RECURSIVE splitComma(_, _, _)
splitComma(s, piece, acc) ==
    IF s = <<>> THEN Append(acc, piece)
    ELSE IF Head(s) = "," THEN splitComma(Tail(s), <<>>, Append(acc, piece))
    ELSE splitComma(Tail(s), Append(piece, Head(s)), acc)

split(s) == splitComma(s, <<>>, <<>>)

NotSpace(c) == ~IsSpace(c)

\* removeWhitespace leaving the string as it is
removeWhitespace_Keep(s) == s

removeWhitespace(s) == SelectSeq(s, NotSpace)

NonEmpty(s) == s # <<>>

\* .map(tag => tag.trim()) and .map(tag => tag.replace(/\s+/g, ''))
trimEach(pieces) == [k \in 1..Len(pieces) |-> trim(pieces[k])]

removeWhitespaceEach(tags) == [k \in 1..Len(tags) |-> removeWhitespace(tags[k])]

(***************************************************************************)
(* AIService.calculateSimilarity: the score as a fraction <<n, d>>, d > 0. *)
(***************************************************************************)
CharSet(s) == {s[k] : k \in 1..Len(s)}

\* Max taking its first argument
Max_First(a, b) == a

Max(a, b) == IF a >= b THEN a ELSE b

\* calculateSimilarity without the early return for equal strings
calculateSimilarity_NoEarlyReturn(str1, str2) ==
    LET set1 == CharSet(toLowerCase(str1))
        set2 == CharSet(toLowerCase(str2))
        intersection == {x \in set1 : x \in set2}
    IN  <<Cardinality(intersection), Max(Cardinality(set1), Cardinality(set2))>>

calculateSimilarity(str1, str2) ==
    LET s1 == toLowerCase(str1)
        s2 == toLowerCase(str2)
        set1 == CharSet(s1)
        set2 == CharSet(s2)
        intersection == {x \in set1 : x \in set2}
    IN  IF s1 = s2 THEN <<1, 1>>
        ELSE <<Cardinality(intersection), Max(Cardinality(set1), Cardinality(set2))>>

\* a > b on fractions with positive denominators
Greater(a, b) == a[1] * b[2] > b[1] * a[2]

similarityThreshold == <<7, 10>>

(***************************************************************************)
(* AIService.findSimilarExistingTag: the loop over config.existingTags.    *)
(* The result is [found, tag]; found = FALSE models null.                  *)
(***************************************************************************)
\* ExceedsThresholdAndBest with >= in place of > on the threshold
ExceedsThresholdAndBest_Inclusive(similarity, highestSimilarity) ==
    ~Greater(similarityThreshold, similarity) /\ Greater(similarity, highestSimilarity)

\* ExceedsThresholdAndBest letting a later tag of equal score take over
ExceedsThresholdAndBest_LaterWins(similarity, highestSimilarity) ==
    Greater(similarity, similarityThreshold) /\ ~Greater(highestSimilarity, similarity)

\* ExceedsThresholdAndBest preferring the lowest score above the threshold
ExceedsThresholdAndBest_Least(similarity, highestSimilarity) ==
    /\ Greater(similarity, similarityThreshold)
    /\ highestSimilarity = <<0, 1>> \/ Greater(highestSimilarity, similarity)

ExceedsThresholdAndBest(similarity, highestSimilarity) ==
    Greater(similarity, similarityThreshold) /\ Greater(similarity, highestSimilarity)

RECURSIVE findLoop(_, _, _, _)
findLoop(newTag, rest, mostSimilarTag, highestSimilarity) ==
    IF rest = <<>> THEN mostSimilarTag
    ELSE LET similarity == calculateSimilarity(newTag, Head(rest))
         IN  IF ExceedsThresholdAndBest(similarity, highestSimilarity)
             THEN findLoop(newTag, Tail(rest), [found |-> TRUE, tag |-> Head(rest)], similarity)
             ELSE findLoop(newTag, Tail(rest), mostSimilarTag, highestSimilarity)

NullTag == [found |-> FALSE, tag |-> <<>>]

findSimilarExistingTag(newTag, existingTags) ==
    IF Len(existingTags) = 0 THEN NullTag
    ELSE findLoop(newTag, existingTags, NullTag, <<0, 1>>)

\* generatedTags.map(tag => findSimilarExistingTag(tag) || tag)
reconcileTag(tag, existingTags) ==
    LET similarTag == findSimilarExistingTag(tag, existingTags)
    IN  IF similarTag.found /\ similarTag.tag # <<>> THEN similarTag.tag ELSE tag

reconcile(generatedTags, existingTags) ==
    [k \in 1..Len(generatedTags) |-> reconcileTag(generatedTags[k], existingTags)]

(***************************************************************************)
(* AIService.parseResponse.  A response body is [json, field, isString,    *)
(* text]: json = "invalid" is a body that is not JSON, "null" the JSON     *)
(* literal null, "object" an object whose only text path is `field`        *)
(* ("choices" = choices[0].message.content, "candidates" =                 *)
(* candidates[0].content.parts[0].text, "none" = neither).                 *)
(***************************************************************************)
MsgParseFailed == <<"parse AI response failed">>

Body(json, field, isString, text) ==
    [json |-> json, field |-> field, isString |-> isString, text |-> text]

BodyChoices ==
    {Body("invalid", "none", TRUE, <<>>), Body("null", "none", TRUE, <<>>),
     Body("object", "none", TRUE, <<>>),
     Body("object", "choices", FALSE, <<>>), Body("object", "candidates", FALSE, <<>>)}
    \cup {Body("object", f, TRUE, t) : f \in {"choices", "candidates"}, t \in BodyTexts}

ExpectedField(provider) == IF provider = "gemini" THEN "candidates" ELSE "choices"

\* the text the optional chain yields: '' when the path is absent (|| '')
tagsTextOf(data, provider) ==
    IF data.field = ExpectedField(provider) THEN trim(data.text) ELSE <<>>

\* property access on null, or .trim() on a non-string, throws inside the try
parseThrows(data, provider) ==
    \/ data.json = "null"
    \/ data.field = ExpectedField(provider) /\ ~data.isString

parseResponse(data, provider) ==
    IF parseThrows(data, provider)
    THEN [ok |-> FALSE, tags |-> <<>>, message |-> MsgParseFailed]
    ELSE [ok |-> TRUE,
          tags |-> removeWhitespaceEach(
                      SelectSeq(trimEach(split(tagsTextOf(data, provider))), NonEmpty)),
          message |-> <<>>]

(***************************************************************************)
(* AIService.parseResponse as listed in README.en.md: it knows the claude  *)
(* provider, whose text is content[0].text or else completion.  The body   *)
(* fields "content" and "completion" stand for these two paths.            *)
(***************************************************************************)
tagsTextOf2(data, provider) ==
    CASE provider = "gemini" ->
           IF data.field = "candidates" THEN trim(data.text) ELSE <<>>
      [] provider = "claude" ->
           IF data.field \in {"content", "completion"} THEN trim(data.text) ELSE <<>>
      [] OTHER ->
           IF data.field = "choices" THEN trim(data.text) ELSE <<>>

\* the claude branch starts with data?. and so survives a null body
parseThrows2(data, provider) ==
    CASE provider = "gemini" ->
           data.json = "null" \/ (data.field = "candidates" /\ ~data.isString)
      [] provider = "claude" ->
           data.field \in {"content", "completion"} /\ ~data.isString
      [] OTHER ->
           data.json = "null" \/ (data.field = "choices" /\ ~data.isString)

parseResponse2(data, provider) ==
    IF parseThrows2(data, provider)
    THEN [ok |-> FALSE, tags |-> <<>>, message |-> MsgParseFailed]
    ELSE [ok |-> TRUE,
          tags |-> removeWhitespaceEach(
                      SelectSeq(trimEach(split(tagsTextOf2(data, provider))), NonEmpty)),
          message |-> <<>>]

(***************************************************************************)
(* AIService request construction.  An apiUrl is a sequence of segments;   *)
(* includes(url, sub) looks for the segment.  A "/" that ends an apiUrl is *)
(* a segment of its own.                                                   *)
(***************************************************************************)
SYSTEM_PROMPT == "system prompt"
UrlOpenAI == <<"https://", "api.openai.com", "/v1/chat/completions">>
UrlGemini == <<"https://", "generativelanguage.googleapis.com", "/v1beta/models", "/">>

ApiKeys == {"", "sk-key"}
ApiUrls == {<<>>, UrlOpenAI, UrlGemini}
Models == {"", "gpt-4o-mini"}

includes(url, sub) == \E k \in 1..Len(url) : url[k] = sub

getProviderFromUrl(cfg) ==
    IF includes(cfg.apiUrl, "generativelanguage.googleapis.com") THEN "gemini" ELSE "openai"

getFullApiUrl(cfg, provider) ==
    IF provider = "gemini"
    THEN cfg.apiUrl \o <<cfg.model, ":generateContent", "?key=", cfg.apiKey>>
    ELSE cfg.apiUrl

getHeaders(cfg, provider) ==
    [contentType |-> "application/json",
     authorization |-> IF provider # "gemini" /\ cfg.apiKey # ""
                       THEN <<"Bearer ", cfg.apiKey>> ELSE <<>>]

getRequestBody(cfg, text, provider) ==
    IF provider = "gemini"
    THEN [contents |-> <<[parts |-> <<[text |-> SYSTEM_PROMPT], [text |-> text]>>]>>]
    ELSE [model |-> cfg.model,
          messages |-> <<[role |-> "system", content |-> SYSTEM_PROMPT],
                         [role |-> "user", content |-> text]>>]

\* the arguments generateTags and testConnection hand to makeRequest
BuildRequest(cfg, text) ==
    LET provider == getProviderFromUrl(cfg)
    IN  [url |-> getFullApiUrl(cfg, provider),
         method |-> "POST",
         headers |-> getHeaders(cfg, provider),
         body |-> getRequestBody(cfg, text, provider)]

(***************************************************************************)
(* The AIService listed in README.en.md: four provider kinds, a custom     *)
(* prompt, the key in a header for every kind but ollama.  A header that   *)
(* is not set is <<>>.                                                     *)
(***************************************************************************)
DEFAULT_SYSTEM_PROMPT == <<"default system prompt">>
UrlGeminiHost == <<"https://", "generativelanguage.googleapis.com">>
UrlGeminiProxy ==
    <<"https://", "gemini-proxy", ".example.com/", "generativelanguage.googleapis.com",
      "/v1beta/models/gemini-1.5-flash:generateContent">>
UrlClaude == <<"https://", "api.", "anthropic.com", "/v1/messages">>
UrlDeepSeek == <<"https://", "api.deepseek.com", "/v1/chat/completions">>
UrlOllama == <<"http://", "localhost:11434", "/v1/chat/completions">>
UrlOllamaHost == <<"https://", "ollama", ".example.com", "/v1/chat/completions">>

RequestUrls ==
    {UrlOpenAI, UrlGemini, UrlGeminiHost, UrlGeminiProxy, UrlClaude, UrlDeepSeek,
     UrlOllama, UrlOllamaHost}
RequestModels == Models \cup {"gemini-1.5-flash"}
CustomPrompts == {<<>>, <<" ">>, <<" ", "custom prompt", " ">>}

Config2(k, u, m, e, p) ==
    [apiKey |-> k, apiUrl |-> u, model |-> m, existingTags |-> e, customPrompt |-> p]

getSystemPrompt(cfg) ==
    IF trim(cfg.customPrompt) # <<>> THEN trim(cfg.customPrompt) ELSE DEFAULT_SYSTEM_PROMPT

\* getProviderFromUrl2 with ollama as the fallback kind
getProviderFromUrl2_OllamaFallback(cfg) ==
    CASE includes(cfg.apiUrl, "generativelanguage.googleapis.com") -> "gemini"
      [] includes(cfg.apiUrl, "anthropic.com") -> "claude"
      [] OTHER -> "ollama"

getProviderFromUrl2(cfg) ==
    CASE includes(cfg.apiUrl, "generativelanguage.googleapis.com") -> "gemini"
      [] includes(cfg.apiUrl, "anthropic.com") -> "claude"
      [] includes(cfg.apiUrl, "localhost:11434") \/ includes(cfg.apiUrl, "ollama") -> "ollama"
      [] OTHER -> "openai"

getFullApiUrl2(cfg, provider) ==
    IF provider = "gemini"
    THEN IF includes(cfg.apiUrl, "gemini-proxy")
         THEN cfg.apiUrl
         ELSE cfg.apiUrl \o <<"/v1beta/models", "/", cfg.model, ":generateContent">>
    ELSE cfg.apiUrl

\* getHeaders2 sending the Bearer token to every kind but gemini and claude
getHeaders2_BearerToOllama(cfg, provider) ==
    [contentType |-> "application/json",
     xGoogApiKey |-> IF cfg.apiKey # "" /\ provider = "gemini" THEN cfg.apiKey ELSE <<>>,
     xApiKey |-> IF cfg.apiKey # "" /\ provider = "claude" THEN cfg.apiKey ELSE <<>>,
     authorization |-> IF cfg.apiKey # "" /\ provider \notin {"gemini", "claude"}
                       THEN <<"Bearer ", cfg.apiKey>> ELSE <<>>]

getHeaders2(cfg, provider) ==
    [contentType |-> "application/json",
     xGoogApiKey |-> IF cfg.apiKey # "" /\ provider = "gemini" THEN cfg.apiKey ELSE <<>>,
     xApiKey |-> IF cfg.apiKey # "" /\ provider = "claude" THEN cfg.apiKey ELSE <<>>,
     authorization |-> IF cfg.apiKey # "" /\ provider = "openai"
                       THEN <<"Bearer ", cfg.apiKey>> ELSE <<>>]

getRequestBody2(cfg, text, provider) ==
    CASE provider = "gemini" ->
           [contents |-> <<[parts |-> <<[text |-> getSystemPrompt(cfg)], [text |-> text]>>]>>]
      [] provider = "claude" ->
           [model |-> cfg.model,
            max_tokens |-> 256,
            messages |-> <<[role |-> "user", content |-> text]>>]
      [] OTHER ->
           [model |-> cfg.model,
            messages |-> <<[role |-> "system", content |-> getSystemPrompt(cfg)],
                           [role |-> "user", content |-> text]>>]

BuildRequest2(cfg, text) ==
    LET provider == getProviderFromUrl2(cfg)
    IN  [url |-> getFullApiUrl2(cfg, provider),
         method |-> "POST",
         headers |-> getHeaders2(cfg, provider),
         body |-> getRequestBody2(cfg, text, provider)]

(***************************************************************************)
(* Errors.  message is a sequence of parts so that a wrapper can prefix.   *)
(***************************************************************************)
Err(type, status, message) == [type |-> type, status |-> status, message |-> message]
NoErr == Err("none", 0, <<>>)

MsgRequestFailed == <<"request failed">>
MsgTimeout == <<"request timed out">>
MsgPayload == <<"payload error message">>
MsgNetwork == <<"Failed to fetch">>
MsgSyntax == <<"Unexpected token in JSON">>
MsgNullProperty == <<"Cannot read properties of null">>
MsgNeedApiKey == <<"please configure the API key in settings first">>
PrefixGenerateFailed == <<"generate tags failed: ">>
PrefixTestFailed == <<"API connection test failed: ">>

\* new RequestError(error.error?.message || default, response.status), or what
\* `await response.json()` / the property access throws instead
PayloadKinds == {"structured", "nomessage", "notjson", "jsonnull"}

errorFromPayload(payload, st) ==
    CASE payload = "structured" -> Err("RequestError", st, MsgPayload)
      [] payload = "nomessage"  -> Err("RequestError", st, MsgRequestFailed)
      [] payload = "notjson"    -> Err("SyntaxError", 0, MsgSyntax)
      [] payload = "jsonnull"   -> Err("TypeError", 0, MsgNullProperty)

timeoutError == Err("RequestError", 408, MsgTimeout)

(***************************************************************************)
(* retryRequest: which failures are retried, the loop bound, the backoff.  *)
(***************************************************************************)
\* IsRetryable with the status test loosened to >= 400
IsRetryable_From400(error) == error.type = "RequestError" /\ error.status >= 400

IsRetryable(error) == error.type = "RequestError" /\ error.status >= 500

\* LoopContinues with the bound off by one
LoopContinues_OneMore(idx) == idx <= MAX_RETRIES + 1

LoopContinues(idx) == idx <= MAX_RETRIES

RECURSIVE Pow2(_)
Pow2(n) == IF n = 0 THEN 1 ELSE 2 * Pow2(n - 1)

backoffDelay(idx) == Pow2(idx) * 1000

(***************************************************************************)
(* The backend: it fails the first Len(plan) attempts as plan says and     *)
(* answers 200 afterwards.                                                 *)
(***************************************************************************)
FailKinds == {"s404", "s500", "s503", "hang", "neterr"}
StatusOf == [s200 |-> 200, s404 |-> 404, s500 |-> 500, s503 |-> 503]
Plans == SeqsUpTo(FailKinds, MaxFail)

responseOk(st) == st >= 200 /\ st <= 299

(***************************************************************************)
(* State.                                                                  *)
(***************************************************************************)
VARIABLES
    pc,             \* where the call is suspended
    op,             \* the operation the caller invoked
    providerConfig, \* settings.providerSettings[settings.provider]
    vault,          \* the host's existing tags
    config,         \* AIService.config
    content,        \* the text sent as the user message
    plan,           \* the backend's behaviour
    i,              \* retryRequest's loop index
    lastError,      \* retryRequest's lastError
    log,            \* per attempt: status received, payload read, error thrown
    waits,          \* the backoff delays slept, in order
    sent,           \* the requests handed to fetch, in order
    timer,          \* the abort timer's delay, 0 when not armed
    status,         \* response.status of the current response
    body,           \* the body the success response delivered
    result,         \* what the caller got
    cands, existing, reconciled, rpc,  \* the reconciliation check
    input, output, fpc,                \* a function's arguments and its value
    recorded,                          \* an earlier call: what it was given and gave
    modal,                             \* the TagSelectionModal
    file, updates,                     \* a note's frontmatter and the updates of it under way
    settings, button,                  \* plugin.settings and the test button of the settings tab
    command,                           \* the generate-tags command
    calls                              \* tag-generation calls under way side by side

callvars ==
    <<pc, op, providerConfig, vault, config, content, plan, i, lastError, log,
      waits, sent, timer, status, body, result>>
fvars == <<input, output, fpc>>
hostvars == <<modal, file, updates, settings, button, command, calls>>
rvars == <<cands, existing, reconciled, rpc, fvars, recorded, hostvars>>
vars == <<callvars, rvars>>

NoProviderConfig == [present |-> FALSE, apiKey |-> "", apiUrl |-> <<>>, model |-> ""]
ProviderConfigs ==
    {NoProviderConfig}
    \cup {[present |-> TRUE, apiKey |-> k, apiUrl |-> u, model |-> m] :
             k \in ApiKeys, u \in ApiUrls, m \in Models}

Config(k, u, m, e) == [apiKey |-> k, apiUrl |-> u, model |-> m, existingTags |-> e]
NoConfig == Config("", <<>>, "", <<>>)

Vocabularies == {<<>>, <<T_golang>>, <<T_golang, T_storage>>}

NoBody == Body("none", "none", TRUE, <<>>)
Result(st, tags, err) == [status |-> st, tags |-> tags, err |-> err]
Pending == Result("pending", <<>>, NoErr)

NoRecord == [made |-> FALSE]

InitCall ==
    /\ pc = "idle"
    /\ recorded = NoRecord
    /\ op = "none"
    /\ providerConfig = NoProviderConfig
    /\ vault = <<>>
    /\ config = NoConfig
    /\ content = ""
    /\ plan = <<>>
    /\ i = 0
    /\ lastError = NoErr
    /\ log = <<>>
    /\ waits = <<>>
    /\ sent = <<>>
    /\ timer = 0
    /\ status = 0
    /\ body = NoBody
    /\ result = Pending

InitRec ==
    /\ cands = <<>>
    /\ existing = <<>>
    /\ reconciled = <<>>
    /\ rpc = "input"

NoInput == [fn |-> "none"]
NoOutput == [fn |-> "none"]

InitFn ==
    /\ input = NoInput
    /\ output = NoOutput
    /\ fpc = "input"

NoModal ==
    [open |-> FALSE, tags |-> <<>>, checked |-> <<>>, value |-> <<>>,
     selectedTags |-> <<>>, submitted |-> <<>>, clicked |-> "none"]
\* A note: whether it starts with a frontmatter block, whether the block has
\* a `tags: [...]` line, and the comma-separated items of that line.
Note(hasYaml, hasTagsLine, items) ==
    [hasYaml |-> hasYaml, hasTagsLine |-> hasTagsLine, tags |-> items]
NoFile == Note(FALSE, FALSE, <<>>)
UpdateIds == {1, 2}
NoUpdates == [u \in UpdateIds |-> [pc |-> "idle", newTags |-> <<>>, content |-> NoFile]]
\* settings.providerSettings[p]; present = FALSE is a provider without entry
Entry(k, u, m) == [present |-> TRUE, apiKey |-> k, apiUrl |-> u, model |-> m]
SettingsProviders == {"openai", "gemini", "claude"}
DEFAULT_SETTINGS ==
    [provider |-> "openai",
     providerSettings |->
         [openai |-> Entry("", UrlOpenAI, "gpt-4o-mini"),
          gemini |-> Entry("", UrlGemini, "gemini-1.5-flash"),
          claude |-> Entry("", UrlClaude, "claude-3-5-sonnet")],
     previous |-> "none"]
PROVIDER_CONFIGS ==
    [openai |-> [defaultUrl |-> UrlOpenAI, defaultModel |-> "gpt-4o-mini"],
     gemini |-> [defaultUrl |-> UrlGeminiHost, defaultModel |-> "gemini-1.5-flash"],
     claude |-> [defaultUrl |-> UrlClaude, defaultModel |-> "claude-3-5-sonnet"]]
NoSettings == DEFAULT_SETTINGS
\* the test button: its loading mark, the tests started from it and those
\* still awaited
\* The two listings of the settings tab mark a running test differently:
\* main.ts by the class `loading`, the later one by setDisabled.
SettingTabs == {"main.ts", "later"}
NoButton == [tab |-> "main.ts", loading |-> FALSE, disabled |-> FALSE,
             started |-> 0, inflight |-> 0]
\* the generateTags command: where it stands, whether a markdown view was
\* active, the loading notice and whether the failure notice was shown
NoCommand == [pc |-> "idle", view |-> FALSE, notice |-> "none", failure |-> FALSE]
\* Tag generations under way at the same time: each has its own service
\* (config), request and result; inputs notes what analyzeTags was given.
CallIds == {1, 2}
NoCall ==
    [pc |-> "idle", op |-> "none", config |-> NoConfig, content |-> "",
     request |-> <<>>, answer |-> <<>>, result |-> Pending,
     inputs |-> <<>>, overlaps |-> FALSE]
NoCalls == [c \in CallIds |-> NoCall]

InitHost ==
    /\ modal = NoModal
    /\ file = NoFile
    /\ updates = NoUpdates
    /\ settings = NoSettings
    /\ button = NoButton
    /\ command = NoCommand
    /\ calls = NoCalls

Init == InitCall /\ InitRec /\ InitFn /\ InitHost

Attempt == Len(sent)
Outcome == IF Attempt <= Len(plan) THEN plan[Attempt] ELSE "s200"

(***************************************************************************)
(* How the awaited call chain ends, per entry point.                       *)
(*   generateTags (AIService)      : the error propagates unchanged        *)
(*   analyzeTags (main.ts)         : rethrown with a prefix                *)
(*   analyzeTagsSmart (the variant that builds the smart prompt)           *)
(*                                 : caught, a Notice shown, [] returned   *)
(*   testConnection                : rethrown with a prefix                *)
(*   retryRequest                  : thrown by the loop                    *)
(***************************************************************************)
GenerationOps == {"generateTags", "analyzeTags", "analyzeTagsSmart"}
HostOps == {"analyzeTags", "analyzeTagsSmart"}

analyzeTagsCatch(error) ==
    Result("error", <<>>, Err("Error", 0, PrefixGenerateFailed \o error.message))

analyzeTagsSmartCatch(error) == Result("ok", <<>>, NoErr)

testConnectionCatch(error) ==
    Result("error", <<>>, Err("Error", 0, PrefixTestFailed \o error.message))

Raise(o, error) ==
    CASE o = "analyzeTags"      -> analyzeTagsCatch(error)
      [] o = "analyzeTagsSmart" -> analyzeTagsSmartCatch(error)
      [] o = "testConnection"   -> testConnectionCatch(error)
      [] OTHER                  -> Result("error", <<>>, error)

\* makeRequest's entry: arm the abort timer and call fetch
makeRequest(cfg, text) ==
    /\ timer' = TIMEOUT
    /\ sent' = Append(sent, BuildRequest(cfg, text))
    /\ pc' = "fetch"

\* StartCall keeping the service of the previous call while the model is the same
StartCall_ServiceKeptPerModel(o, pcfg, vt, cfg, text, pl) ==
    /\ op' = o
    /\ providerConfig' = pcfg
    /\ vault' = vt
    /\ config' = IF config # NoConfig /\ config.model = cfg.model THEN config ELSE cfg
    /\ content' = text
    /\ plan' = pl
    /\ UNCHANGED <<i, lastError, log, waits, status, body, rvars>>

StartCall(o, pcfg, vt, cfg, text, pl) ==
    /\ op' = o
    /\ providerConfig' = pcfg
    /\ vault' = vt
    /\ config' = cfg
    /\ content' = text
    /\ plan' = pl
    /\ UNCHANGED <<i, lastError, log, waits, status, body, rvars>>

ReturnEarly(o, pcfg, vt, pl, res) ==
    /\ op' = o
    /\ providerConfig' = pcfg
    /\ vault' = vt
    /\ plan' = pl
    /\ result' = res
    /\ pc' = "done"
    /\ UNCHANGED <<config, content, i, lastError, log, waits, sent, timer, status, body, rvars>>

(***************************************************************************)
(* AutoTaggerPlugin.analyzeTags (main.ts).                                 *)
(***************************************************************************)
analyzeTagsRejects(pcfg) == ~pcfg.present \/ pcfg.apiKey = ""

analyzeTags(pcfg, vt, pl) ==
    /\ pc = "idle"
    /\ IF analyzeTagsRejects(pcfg)
       THEN ReturnEarly("analyzeTags", pcfg, vt, pl,
                        Result("error", <<>>, Err("Error", 0, MsgNeedApiKey)))
       ELSE /\ StartCall("analyzeTags", pcfg, vt,
                         Config(pcfg.apiKey, pcfg.apiUrl, pcfg.model, <<>>), "document", pl)
            /\ makeRequest(Config(pcfg.apiKey, pcfg.apiUrl, pcfg.model, <<>>), "document")
            /\ UNCHANGED result

(***************************************************************************)
(* AutoTaggerPlugin.analyzeTags, the variant with the smart prompt.        *)
(***************************************************************************)
analyzeTagsSmartRejects(pcfg) == ~pcfg.present \/ pcfg.apiUrl = <<>> \/ pcfg.model = ""

analyzeTagsSmart(pcfg, vt, pl) ==
    /\ pc = "idle"
    /\ IF analyzeTagsSmartRejects(pcfg)
       THEN ReturnEarly("analyzeTagsSmart", pcfg, vt, pl, Result("ok", <<>>, NoErr))
       ELSE /\ StartCall("analyzeTagsSmart", pcfg, vt,
                         Config(pcfg.apiKey, pcfg.apiUrl, pcfg.model, <<>>), "document", pl)
            /\ makeRequest(Config(pcfg.apiKey, pcfg.apiUrl, pcfg.model, <<>>), "document")
            /\ UNCHANGED result

(***************************************************************************)
(* AIService.generateTags on a service built with existingTags;            *)
(* AIService.testConnection; AIService.retryRequest with                   *)
(* fn = () => makeRequest(the request generateTags builds).                *)
(***************************************************************************)
generateTags(cfg, pl) ==
    /\ pc = "idle"
    /\ StartCall("generateTags", NoProviderConfig, <<>>, cfg, "document", pl)
    /\ makeRequest(cfg, "document")
    /\ UNCHANGED result

testConnection(cfg, pl) ==
    /\ pc = "idle"
    /\ StartCall("testConnection", NoProviderConfig, <<>>, cfg, "hello", pl)
    /\ makeRequest(cfg, "hello")
    /\ UNCHANGED result

retryRequest(cfg, pl) ==
    /\ pc = "idle"
    /\ StartCall("retryRequest", NoProviderConfig, <<>>, cfg, "document", pl)
    /\ makeRequest(cfg, "document")
    /\ UNCHANGED result

(***************************************************************************)
(* An attempt fails with `error`: makeRequest's finally clears the timer;  *)
(* inside retryRequest the catch decides between backoff and throw.        *)
(***************************************************************************)
attemptFails(st, payload, error) ==
    /\ timer' = 0
    /\ log' = Append(log, [status |-> st, payload |-> payload, err |-> error])
    /\ IF op = "retryRequest"
       THEN /\ lastError' = error
            /\ IF IsRetryable(error)
               THEN /\ waits' = Append(waits, backoffDelay(i))
                    /\ pc' = "backoff"
                    /\ UNCHANGED result
               ELSE /\ result' = Raise(op, error)
                    /\ pc' = "done"
                    /\ UNCHANGED waits
       ELSE /\ result' = Raise(op, error)
            /\ pc' = "done"
            /\ UNCHANGED <<lastError, waits>>

\* fetch resolves with a response
fetchResolves ==
    /\ pc = "fetch"
    /\ Outcome \in DOMAIN StatusOf
    /\ status' = StatusOf[Outcome]
    /\ IF responseOk(StatusOf[Outcome])
       THEN /\ timer' = 0
            /\ IF op \in GenerationOps
               THEN pc' = "body" /\ UNCHANGED result
               ELSE pc' = "done" /\ result' = Result("ok", <<>>, NoErr)
       ELSE /\ pc' = "errBody"
            /\ UNCHANGED <<timer, result>>
    /\ UNCHANGED <<op, providerConfig, vault, config, content, plan, i, lastError, log,
                   waits, sent, body, rvars>>

\* fetch rejects: the network is down
fetchRejects ==
    /\ pc = "fetch"
    /\ Outcome = "neterr"
    /\ attemptFails(0, "none", Err("TypeError", 0, MsgNetwork))
    /\ UNCHANGED <<op, providerConfig, vault, config, content, plan, i, sent, status, body, rvars>>

\* the abort timer expires while fetch or the error payload is pending
timeoutFires ==
    /\ timer > 0
    /\ \/ pc = "fetch" /\ Outcome = "hang"
       \/ pc = "errBody"
    /\ attemptFails(IF pc = "errBody" THEN status ELSE 0, "none", timeoutError)
    /\ UNCHANGED <<op, providerConfig, vault, config, content, plan, i, sent, status, body, rvars>>

\* `await response.json()` of a non-ok response settles
errorBodyRead(payload) ==
    /\ pc = "errBody"
    /\ attemptFails(status, payload, errorFromPayload(payload, status))
    /\ UNCHANGED <<op, providerConfig, vault, config, content, plan, i, sent, status, body, rvars>>

\* the backoff sleep ends: i++, then the loop test
backoffElapsed ==
    /\ pc = "backoff"
    /\ i' = i + 1
    /\ IF LoopContinues(i + 1)
       THEN /\ makeRequest(config, content)
            /\ UNCHANGED result
       ELSE /\ result' = Raise(op, lastError)
            /\ pc' = "done"
            /\ UNCHANGED <<sent, timer>>
    /\ UNCHANGED <<op, providerConfig, vault, config, content, plan, lastError, log, waits,
                   status, body, rvars>>

\* generateTags: `await response.json()` of the ok response settles, then
\* parseResponse and the reconciliation map
generateTagsResult(data, cfg) ==
    LET provider == getProviderFromUrl(cfg)
        parsed == parseResponse(data, provider)
    IN  IF data.json = "invalid" THEN [ok |-> FALSE, tags |-> <<>>, err |-> Err("SyntaxError", 0, MsgSyntax)]
        ELSE IF ~parsed.ok THEN [ok |-> FALSE, tags |-> <<>>, err |-> Err("Error", 0, parsed.message)]
        ELSE [ok |-> TRUE, tags |-> reconcile(parsed.tags, cfg.existingTags), err |-> NoErr]

bodyRead(data) ==
    /\ pc = "body"
    /\ body' = data
    /\ LET r == generateTagsResult(data, config)
       IN  result' = IF r.ok THEN Result("ok", r.tags, NoErr) ELSE Raise(op, r.err)
    /\ pc' = "done"
    /\ UNCHANGED <<op, providerConfig, vault, config, content, plan, i, lastError, log,
                   waits, sent, timer, status, rvars>>

ServiceConfigs ==
    {Config(k, u, m, e) : k \in ApiKeys, u \in ApiUrls, m \in Models, e \in Vocabularies}
PlainConfigs ==
    {Config(k, u, m, <<>>) : k \in ApiKeys, u \in ApiUrls, m \in Models}

\* the caller picks the operation and its inputs while no call is pending
CallAnalyzeTags ==
    /\ pc = "idle"
    /\ \E pcfg \in ProviderConfigs, vt \in Vocabularies, pl \in Plans : analyzeTags(pcfg, vt, pl)

CallAnalyzeTagsSmart ==
    /\ pc = "idle"
    /\ \E pcfg \in ProviderConfigs, vt \in Vocabularies, pl \in Plans : analyzeTagsSmart(pcfg, vt, pl)

CallGenerateTags ==
    /\ pc = "idle"
    /\ \E cfg \in ServiceConfigs, pl \in Plans : generateTags(cfg, pl)

CallTestConnection ==
    /\ pc = "idle"
    /\ \E cfg \in PlainConfigs, pl \in Plans : testConnection(cfg, pl)

CallRetryRequest ==
    /\ pc = "idle"
    /\ \E cfg \in PlainConfigs, pl \in Plans : retryRequest(cfg, pl)

ErrorBodyRead == pc = "errBody" /\ \E payload \in PayloadKinds : errorBodyRead(payload)

BodyRead == pc = "body" /\ \E data \in BodyChoices : bodyRead(data)

Next ==
    \/ CallAnalyzeTags
    \/ CallAnalyzeTagsSmart
    \/ CallGenerateTags
    \/ CallTestConnection
    \/ CallRetryRequest
    \/ fetchResolves
    \/ fetchRejects
    \/ timeoutFires
    \/ ErrorBodyRead
    \/ backoffElapsed
    \/ BodyRead

Spec == Init /\ [][Next]_vars

\* the timer, the sleep and a backend that answers as planned make progress;
\* nothing obliges a body to arrive
FairSpec ==
    /\ Spec
    /\ WF_vars(fetchResolves)
    /\ WF_vars(fetchRejects)
    /\ WF_vars(timeoutFires)
    /\ WF_vars(backoffElapsed)

(***************************************************************************)
(* The reconciliation check: inputs drawn in InitReconcile.                *)
(***************************************************************************)
InitReconcile ==
    /\ InitCall
    /\ InitFn
    /\ InitHost
    /\ cands \in SeqsUpTo(TagPool, MaxCands)
    /\ existing \in SeqsUpTo(TagPool, MaxExisting)
    /\ reconciled = <<>>
    /\ rpc = "input"

Reconcile ==
    /\ rpc = "input"
    /\ reconciled' = reconcile(cands, existing)
    /\ rpc' = "done"
    /\ UNCHANGED <<cands, existing, callvars, fvars, recorded, hostvars>>

NextReconcile == Reconcile

SpecReconcile == InitReconcile /\ [][NextReconcile]_vars

(***************************************************************************)
(* Calls in sequence: analyzeTags is awaited by the generate-tags command, *)
(* which returns; the next invocation starts with fresh locals.  One of    *)
(* the completed calls is kept in `recorded`, with what the host gave it   *)
(* and what the backend answered, and `between` tells that other calls     *)
(* completed after it.  The backend answers the request at once.           *)
(***************************************************************************)
CallRecord ==
    [made |-> TRUE, providerConfig |-> providerConfig, vault |-> vault,
     content |-> content, body |-> body, result |-> result, between |-> FALSE]

Return ==
    /\ pc = "done"
    /\ pc' = "idle"
    /\ i' = 0
    /\ lastError' = NoErr
    /\ log' = <<>>
    /\ waits' = <<>>
    /\ sent' = <<>>
    /\ timer' = 0
    /\ status' = 0
    /\ body' = NoBody
    /\ result' = Pending
    /\ \/ ~recorded.made /\ recorded' = CallRecord
       \/ ~recorded.made /\ UNCHANGED recorded
       \/ recorded.made /\ recorded' = [recorded EXCEPT !.between = TRUE]
    /\ UNCHANGED <<op, providerConfig, vault, config, content, plan,
                   cands, existing, reconciled, rpc, fvars, hostvars>>

CallAnalyzeTagsAnswered ==
    /\ pc = "idle"
    /\ \E pcfg \in ProviderConfigs, vt \in Vocabularies : analyzeTags(pcfg, vt, <<>>)

NextRepeat ==
    \/ CallAnalyzeTagsAnswered
    \/ fetchResolves
    \/ BodyRead
    \/ Return

SpecRepeat == Init /\ [][NextRepeat]_vars

(***************************************************************************)
(* TagSelectionModal.  Row k has a checkbox (checked[k]) and a text input  *)
(* (value[k]); selectedTags[k] is Null or Str(text).  submitted lists the  *)
(* arguments onSubmit was called with, clicked the button that closed the  *)
(* dialog.                                                                 *)
(***************************************************************************)
Null == <<>>
Str(v) == <<v>>
GeneratedTexts == {"ai", "golang"}
RowTexts == GeneratedTexts \cup {""}

\* constructor and onOpen: every row checked and showing its tag
TagSelectionModal(tags) ==
    [open |-> TRUE, tags |-> tags,
     checked |-> [k \in 1..Len(tags) |-> TRUE],
     value |-> tags,
     selectedTags |-> [k \in 1..Len(tags) |-> Str(tags[k])],
     submitted |-> <<>>, clicked |-> "none"]

\* the checkbox's change listener
changeListener(isChecked, v) == IF isChecked THEN Str(v) ELSE Null

\* inputListener writing the text of an unchecked row as well
inputListener_Unconditional(isChecked, selected, v) == Str(v)

\* the text input's input listener
inputListener(isChecked, selected, v) == IF isChecked THEN Str(v) ELSE selected

NotNull(tag) == tag # Null

\* selectedTags.filter(tag => tag !== null)
finalTags(selectedTags) ==
    LET kept == SelectSeq(selectedTags, NotNull)
    IN  [k \in 1..Len(kept) |-> kept[k][1]]

checkboxChange(k) ==
    /\ modal' = [modal EXCEPT
                   !.checked[k] = ~modal.checked[k],
                   !.selectedTags[k] = changeListener(~modal.checked[k], modal.value[k])]

tagInputInput(k, v) ==
    /\ modal' = [modal EXCEPT
                   !.value[k] = v,
                   !.selectedTags[k] = inputListener(modal.checked[k], modal.selectedTags[k], v)]

CheckboxChange ==
    /\ modal.open
    /\ \E k \in 1..Len(modal.tags) : checkboxChange(k)
    /\ UNCHANGED <<callvars, cands, existing, reconciled, rpc, fvars, recorded,
                   file, updates, settings, button, command, calls>>

TagInputInput ==
    /\ modal.open
    /\ \E k \in 1..Len(modal.tags), v \in RowTexts : v # modal.value[k] /\ tagInputInput(k, v)
    /\ UNCHANGED <<callvars, cands, existing, reconciled, rpc, fvars, recorded,
                   file, updates, settings, button, command, calls>>

ConfirmClick ==
    /\ modal.open
    /\ modal' = [modal EXCEPT
                   !.submitted = Append(modal.submitted, finalTags(modal.selectedTags)),
                   !.open = FALSE,
                   !.clicked = "confirm"]
    /\ UNCHANGED <<callvars, cands, existing, reconciled, rpc, fvars, recorded,
                   file, updates, settings, button, command, calls>>

CancelClick ==
    /\ modal.open
    /\ modal' = [modal EXCEPT !.open = FALSE, !.clicked = "cancel"]
    /\ UNCHANGED <<callvars, cands, existing, reconciled, rpc, fvars, recorded,
                   file, updates, settings, button, command, calls>>

InitModal ==
    /\ InitCall
    /\ InitRec
    /\ InitFn
    /\ modal \in {TagSelectionModal(t) : t \in SeqsUpTo(GeneratedTexts, MaxRows)}
    /\ file = NoFile
    /\ updates = NoUpdates
    /\ settings = NoSettings
    /\ button = NoButton
    /\ command = NoCommand
    /\ calls = NoCalls

NextModal == CheckboxChange \/ TagInputInput \/ ConfirmClick \/ CancelClick

SpecModal == InitModal /\ [][NextModal]_vars

(***************************************************************************)
(* AutoTaggerPlugin.updateFileFrontMatter: `await vault.read`, the merge,  *)
(* `await vault.modify`.  Two updates of the same note may be under way.   *)
(***************************************************************************)
NotEmptyText(tag) == tag # ""

\* existingTagsStr.split(',').map(trim).filter(tag => tag !== '')
existingTagsOf(text) == SelectSeq(text.tags, NotEmptyText)

\* [...new Set(tags)]: first occurrences, in order
RECURSIVE setOrder(_, _)
setOrder(tags, seen) ==
    IF tags = <<>> THEN <<>>
    ELSE IF Head(tags) \in seen THEN setOrder(Tail(tags), seen)
    ELSE <<Head(tags)>> \o setOrder(Tail(tags), seen \cup {Head(tags)})

newContentOf(text, newTags) ==
    IF text.hasYaml
    THEN IF text.hasTagsLine
         THEN Note(TRUE, TRUE, setOrder(existingTagsOf(text) \o newTags, {}))
         ELSE Note(TRUE, TRUE, newTags)
    ELSE Note(TRUE, TRUE, newTags)

vaultRead(u, newTags) ==
    /\ updates[u].pc = "idle"
    /\ updates' = [updates EXCEPT ![u] = [pc |-> "read", newTags |-> newTags, content |-> file]]
    /\ UNCHANGED file

vaultModify(u) ==
    /\ updates[u].pc = "read"
    /\ file' = newContentOf(updates[u].content, updates[u].newTags)
    /\ updates' = [updates EXCEPT ![u].pc = "done"]

VaultRead ==
    /\ \E u \in UpdateIds, t \in SeqsUpTo(GeneratedTexts, MaxRows) : vaultRead(u, t)
    /\ UNCHANGED <<callvars, cands, existing, reconciled, rpc, fvars, recorded,
                   modal, settings, button, command, calls>>

VaultModify ==
    /\ \E u \in UpdateIds : vaultModify(u)
    /\ UNCHANGED <<callvars, cands, existing, reconciled, rpc, fvars, recorded,
                   modal, settings, button, command, calls>>

Notes ==
    {Note(FALSE, FALSE, <<>>), Note(TRUE, FALSE, <<>>)}
    \cup {Note(TRUE, TRUE, t) : t \in SeqsUpTo(GeneratedTexts, MaxRows)}

InitFrontMatter ==
    /\ InitCall
    /\ InitRec
    /\ InitFn
    /\ file \in Notes
    /\ updates = NoUpdates
    /\ modal = NoModal
    /\ settings = NoSettings
    /\ button = NoButton
    /\ command = NoCommand
    /\ calls = NoCalls

NextFrontMatter == VaultRead \/ VaultModify

SpecFrontMatter == InitFrontMatter /\ [][NextFrontMatter]_vars

(***************************************************************************)
(* AutoTaggerPlugin.generateTags, the command (main.ts).  It reads the     *)
(* note, shows the loading notice, awaits analyzeTags, hides the notice    *)
(* and opens the dialog or shows the failure; the dialog's onSubmit runs   *)
(* updateFileFrontMatter as update 1.                                      *)
(***************************************************************************)
\* getActiveViewOfType(MarkdownView) and, with a view, the call of vault.read
commandStart(view) ==
    command' = IF view THEN [command EXCEPT !.pc = "reading", !.view = TRUE]
               ELSE [command EXCEPT !.pc = "done", !.view = FALSE]

\* vault.read settled: new Notice(..., 0)
commandNotice ==
    command' = [command EXCEPT !.pc = "awaiting", !.notice = "shown"]

\* analyzeTags settled: the rest of the try block, or the catch block
commandSettles(res) ==
    IF res.status = "ok"
    THEN /\ command' = [command EXCEPT !.pc = "dialog", !.notice = "hidden"]
         /\ modal' = TagSelectionModal(res.tags)
    ELSE /\ command' = [command EXCEPT !.pc = "done", !.notice = "hidden", !.failure = TRUE]
         /\ UNCHANGED modal

CommandStart ==
    /\ command.pc = "idle"
    /\ \E view \in BOOLEAN : commandStart(view)
    /\ UNCHANGED <<callvars, cands, existing, reconciled, rpc, fvars, recorded,
                   modal, file, updates, settings, button, calls>>

CommandNotice ==
    /\ command.pc = "reading"
    /\ commandNotice
    /\ UNCHANGED <<callvars, cands, existing, reconciled, rpc, fvars, recorded,
                   modal, file, updates, settings, button, calls>>

\* analyzeTags makes one attempt: what the backend does with it
CommandPlans == {pl \in Plans : Len(pl) <= 1}

CommandAnalyze ==
    /\ command.pc = "awaiting"
    /\ pc = "idle"
    /\ \E pcfg \in ProviderConfigs, vt \in Vocabularies, pl \in CommandPlans :
           analyzeTags(pcfg, vt, pl)

CommandSettles ==
    /\ command.pc = "awaiting"
    /\ pc = "done"
    /\ commandSettles(result)
    /\ UNCHANGED <<callvars, cands, existing, reconciled, rpc, fvars, recorded,
                   file, updates, settings, button, calls>>

\* onSubmit: updateFileFrontMatter(file, selectedTags) up to its vault.read
CommandSubmit ==
    /\ command.pc = "dialog"
    /\ modal.clicked = "confirm"
    /\ vaultRead(1, modal.submitted[1])
    /\ command' = [command EXCEPT !.pc = "done"]
    /\ UNCHANGED <<callvars, cands, existing, reconciled, rpc, fvars, recorded,
                   modal, settings, button, calls>>

InitCommand ==
    /\ InitCall
    /\ InitRec
    /\ InitFn
    /\ file \in {Note(FALSE, FALSE, <<>>), Note(TRUE, FALSE, <<>>), Note(TRUE, TRUE, <<>>)}
    /\ updates = NoUpdates
    /\ modal = NoModal
    /\ settings = NoSettings
    /\ button = NoButton
    /\ command = NoCommand
    /\ calls = NoCalls

NextCommand ==
    \/ CommandStart
    \/ CommandNotice
    \/ CommandAnalyze
    \/ fetchResolves
    \/ fetchRejects
    \/ timeoutFires
    \/ ErrorBodyRead
    \/ BodyRead
    \/ CommandSettles
    \/ CheckboxChange
    \/ ConfirmClick
    \/ CancelClick
    \/ CommandSubmit
    \/ VaultModify

SpecCommand == InitCommand /\ [][NextCommand]_vars

\* the host runs the command's continuations; the timer and a backend that
\* answers as planned make progress; nothing obliges a body to arrive
FairCommand ==
    /\ SpecCommand
    /\ WF_vars(CommandNotice)
    /\ WF_vars(CommandAnalyze)
    /\ WF_vars(fetchResolves)
    /\ WF_vars(fetchRejects)
    /\ WF_vars(timeoutFires)
    /\ WF_vars(CommandSettles)

(***************************************************************************)
(* AutoTaggerSettingTab: the provider dropdown, the API key field, the     *)
(* button restoring the default API address and the test button.           *)
(* display() builds new controls; `button` follows one button element.     *)
(* settings.previous remembers the provider selected before the last       *)
(* change of the dropdown.                                                 *)
(***************************************************************************)
\* needsEntry whatever the stored entry
needsEntry_Always(entry) == TRUE

\* if (!this.plugin.settings.providerSettings[value])
needsEntry(entry) == ~entry.present

providerOnChange(value) ==
    settings' =
        [settings EXCEPT
            !.provider = value,
            !.previous = settings.provider,
            !.providerSettings[value] =
                IF needsEntry(settings.providerSettings[value])
                THEN Entry("", PROVIDER_CONFIGS[value].defaultUrl,
                           PROVIDER_CONFIGS[value].defaultModel)
                ELSE settings.providerSettings[value]]

apiKeyOnChange(value) ==
    settings' = [settings EXCEPT !.providerSettings[settings.provider].apiKey = value]

resetUrlOnClick ==
    settings' = [settings EXCEPT !.providerSettings[settings.provider].apiUrl =
                                     PROVIDER_CONFIGS[settings.provider].defaultUrl]

\* mayStartTest without the look at the loading mark
mayStartTest_Unguarded(btn, entry) == entry.apiKey # ""

\* if (buttonEl.hasClass('loading')) return; if (!config.apiKey) return;
mayStartTest(btn, entry) == ~btn.loading /\ entry.apiKey # ""

\* main.ts: the click up to `await aiService.testConnection()`
testOnClick ==
    IF mayStartTest(button, settings.providerSettings[settings.provider])
    THEN button' = [button EXCEPT !.loading = TRUE,
                                  !.started = button.started + 1,
                                  !.inflight = button.inflight + 1]
    ELSE UNCHANGED button

\* main.ts: testConnection settled, the Notice, and the finally block
testSettles ==
    button' = [button EXCEPT !.loading = FALSE, !.inflight = button.inflight - 1]

\* the later listing: btn.setDisabled(true) up to the await
testOnClick2 ==
    button' = [button EXCEPT !.disabled = TRUE,
                             !.started = button.started + 1,
                             !.inflight = button.inflight + 1]

\* the later listing: the Notice and btn.setDisabled(false)
testSettles2 ==
    button' = [button EXCEPT !.disabled = FALSE, !.inflight = button.inflight - 1]

ProviderOnChange ==
    /\ \E value \in SettingsProviders \ {settings.provider} : providerOnChange(value)
    /\ UNCHANGED <<callvars, cands, existing, reconciled, rpc, fvars, recorded,
                   modal, file, updates, button, command, calls>>

ApiKeyOnChange ==
    /\ \E value \in ApiKeys : apiKeyOnChange(value)
    /\ UNCHANGED <<callvars, cands, existing, reconciled, rpc, fvars, recorded,
                   modal, file, updates, button, command, calls>>

ResetUrlOnClick ==
    /\ resetUrlOnClick
    /\ UNCHANGED <<callvars, cands, existing, reconciled, rpc, fvars, recorded,
                   modal, file, updates, button, command, calls>>

TestOnClick ==
    /\ button.tab = "main.ts"
    /\ button.started < MaxTests
    /\ testOnClick
    /\ UNCHANGED <<callvars, cands, existing, reconciled, rpc, fvars, recorded,
                   modal, file, updates, settings, command, calls>>

TestSettles ==
    /\ button.tab = "main.ts"
    /\ button.inflight > 0
    /\ testSettles
    /\ UNCHANGED <<callvars, cands, existing, reconciled, rpc, fvars, recorded,
                   modal, file, updates, settings, command, calls>>

\* The host hands a click to the callback of an enabled button only.
TestOnClick2 ==
    /\ button.tab = "later"
    /\ ~button.disabled
    /\ button.started < MaxTests
    /\ testOnClick2
    /\ UNCHANGED <<callvars, cands, existing, reconciled, rpc, fvars, recorded,
                   modal, file, updates, settings, command, calls>>

TestSettles2 ==
    /\ button.tab = "later"
    /\ button.inflight > 0
    /\ testSettles2
    /\ UNCHANGED <<callvars, cands, existing, reconciled, rpc, fvars, recorded,
                   modal, file, updates, settings, command, calls>>

\* loadSettings: the defaults, replaced by the stored providerSettings, which
\* may lack providers added later
LoadedSettings ==
    {[DEFAULT_SETTINGS EXCEPT !.providerSettings =
         [p \in SettingsProviders |->
             IF p \in absent THEN [DEFAULT_SETTINGS.providerSettings[p] EXCEPT !.present = FALSE]
             ELSE DEFAULT_SETTINGS.providerSettings[p]]] :
       absent \in SUBSET (SettingsProviders \ {"openai"})}

InitSettings ==
    /\ InitCall
    /\ InitRec
    /\ InitFn
    /\ settings \in LoadedSettings
    /\ \E tab \in SettingTabs : button = [NoButton EXCEPT !.tab = tab]
    /\ modal = NoModal
    /\ file = NoFile
    /\ updates = NoUpdates
    /\ command = NoCommand
    /\ calls = NoCalls

NextSettings ==
    \/ ProviderOnChange
    \/ ApiKeyOnChange
    \/ ResetUrlOnClick
    \/ TestOnClick
    \/ TestSettles
    \/ TestOnClick2
    \/ TestSettles2

SpecSettings == InitSettings /\ [][NextSettings]_vars

(***************************************************************************)
(* Two analyzeTags calls at once.  The plugin's settings and its set of    *)
(* vault tags are shared and may change while a call is pending; each call *)
(* builds its AIServiceConfig and `new AIService(config)` when it starts.  *)
(* op = "analyzeTags" is main.ts, "analyzeTagsSmart" the variant with the  *)
(* smart prompt, whose service is the one listed in README.en.md.          *)
(***************************************************************************)
RECURSIVE joinTags(_)
joinTags(tags) ==
    IF tags = <<>> THEN <<>>
    ELSE IF Len(tags) = 1 THEN tags[1]
    ELSE tags[1] \o <<",", " ">> \o joinTags(Tail(tags))

\* the smart prompt: fixed text, the content, Array.from(existingTags).join(', ')
smartPrompt(text, tags) == <<"smart prompt", text, ":">> \o joinTags(tags)

\* const config: AIServiceConfig = {...}
configFor(o, entry, tags, text) ==
    IF o = "analyzeTags"
    THEN Config(entry.apiKey, entry.apiUrl, entry.model, <<>>)
    ELSE Config2(entry.apiKey, entry.apiUrl, entry.model, <<>>, smartPrompt(text, tags))

rejectsFor(o, entry) ==
    IF o = "analyzeTags" THEN analyzeTagsRejects(entry) ELSE analyzeTagsSmartRejects(entry)

rejectionFor(o) ==
    IF o = "analyzeTags" THEN Result("error", <<>>, Err("Error", 0, MsgNeedApiKey))
    ELSE Result("ok", <<>>, NoErr)

requestFor(o, cfg, text) ==
    IF o = "analyzeTags" THEN BuildRequest(cfg, text) ELSE BuildRequest2(cfg, text)

generateTagsResult2(data, cfg) ==
    LET provider == getProviderFromUrl2(cfg)
        parsed == parseResponse2(data, provider)
    IN  IF data.json = "invalid" THEN [ok |-> FALSE, tags |-> <<>>, err |-> Err("SyntaxError", 0, MsgSyntax)]
        ELSE IF ~parsed.ok THEN [ok |-> FALSE, tags |-> <<>>, err |-> Err("Error", 0, parsed.message)]
        ELSE [ok |-> TRUE, tags |-> reconcile(parsed.tags, cfg.existingTags), err |-> NoErr]

\* what the awaited generateTags gives analyzeTags, through its try/catch
resultFor(o, cfg, answer) ==
    IF ~answer.ok THEN Raise(o, errorFromPayload(answer.payload, answer.status))
    ELSE LET r == IF o = "analyzeTags" THEN generateTagsResult(answer.data, cfg)
                  ELSE generateTagsResult2(answer.data, cfg)
         IN  IF r.ok THEN Result("ok", r.tags, NoErr) ELSE Raise(o, r.err)

\* the config every call reads being the one built from the settings of the moment
serviceConfig_Live(c) ==
    configFor(calls[c].op, settings.providerSettings[settings.provider], vault,
              calls[c].content)

\* this.config of the call's own AIService
serviceConfig(c) == calls[c].config

callStart(c, o, text) ==
    LET entry == settings.providerSettings[settings.provider]
        cfg == configFor(o, entry, vault, text)
        mine == [calls[c] EXCEPT
                    !.op = o, !.content = text,
                    !.inputs = [entry |-> entry, tags |-> vault, text |-> text],
                    !.overlaps = \E d \in CallIds \ {c} : calls[d].pc = "fetch"]
    IN  calls' = [calls EXCEPT ![c] =
                    IF rejectsFor(o, entry)
                    THEN [mine EXCEPT !.pc = "done", !.result = rejectionFor(o)]
                    ELSE [mine EXCEPT !.pc = "fetch", !.config = cfg,
                                      !.request = requestFor(o, cfg, text)]]

callAnswered(c, answer) ==
    calls' = [calls EXCEPT ![c].pc = "done",
                           ![c].answer = answer,
                           ![c].result = resultFor(calls[c].op, serviceConfig(c), answer)]

ConcurrentDocuments == [c \in CallIds |-> IF c = 1 THEN "document one" ELSE "document two"]
ConcurrentVocabularies == {<<>>, <<T_golang, T_storage>>}
CallAnswers ==
    {[ok |-> FALSE, status |-> 500, payload |-> "structured"]}
    \cup {[ok |-> TRUE, data |-> d] :
             d \in {Body("object", "choices", TRUE, TextGolangDatabases),
                    Body("object", "candidates", TRUE, TextAiTagsGolang),
                    Body("object", "content", TRUE, TextMachineLearning)}}

CallStart ==
    /\ \E c \in CallIds, o \in HostOps :
           /\ calls[c].pc = "idle"
           /\ callStart(c, o, ConcurrentDocuments[c])
    /\ UNCHANGED <<callvars, cands, existing, reconciled, rpc, fvars, recorded,
                   modal, file, updates, settings, button, command>>

CallAnswered ==
    /\ \E c \in CallIds, answer \in CallAnswers :
           /\ calls[c].pc = "fetch"
           /\ callAnswered(c, answer)
    /\ UNCHANGED <<callvars, cands, existing, reconciled, rpc, fvars, recorded,
                   modal, file, updates, settings, button, command>>

\* the metadata cache reports other tags: this.existingTags is replaced
ExistingTagsChange ==
    /\ \E tags \in ConcurrentVocabularies \ {vault} : vault' = tags
    /\ UNCHANGED <<pc, op, providerConfig, config, content, plan, i, lastError, log,
                   waits, sent, timer, status, body, result, rvars>>

\* settings with keys stored for openai and gemini, none for claude
InitConcurrent ==
    /\ InitCall
    /\ InitRec
    /\ InitFn
    /\ settings = [DEFAULT_SETTINGS EXCEPT !.providerSettings.openai.apiKey = "sk-key",
                                           !.providerSettings.gemini.apiKey = "sk-key"]
    /\ calls = NoCalls
    /\ modal = NoModal
    /\ file = NoFile
    /\ updates = NoUpdates
    /\ button = NoButton
    /\ command = NoCommand

NextConcurrent ==
    \/ CallStart
    \/ CallAnswered
    \/ ProviderOnChange
    \/ ExistingTagsChange

SpecConcurrent == InitConcurrent /\ [][NextConcurrent]_vars

(***************************************************************************)
(* The similarity check: two strings drawn in InitSimilarity, scored in    *)
(* both argument orders.                                                   *)
(***************************************************************************)
Alphabet == {"a", "A", "b"}
Strings == SeqsUpTo(Alphabet, MaxStrLen) \cup TagPool

InitSimilarity ==
    /\ InitCall
    /\ InitRec
    /\ InitHost
    /\ input \in [fn : {"calculateSimilarity"}, str1 : Strings, str2 : Strings]
    /\ output = NoOutput
    /\ fpc = "input"

Similarity ==
    /\ fpc = "input"
    /\ input.fn = "calculateSimilarity"
    /\ output' = [fn |-> "calculateSimilarity",
                  forward |-> calculateSimilarity(input.str1, input.str2),
                  backward |-> calculateSimilarity(input.str2, input.str1)]
    /\ fpc' = "done"
    /\ UNCHANGED <<input, callvars, cands, existing, reconciled, rpc, recorded, hostvars>>

NextSimilarity == Similarity

SpecSimilarity == InitSimilarity /\ [][NextSimilarity]_vars

(***************************************************************************)
(* The parse check: a parsed body and a provider kind drawn in InitParse.  *)
(* listing = "AIService.ts" is the service of src/services/AIService.ts,   *)
(* whose getProviderFromUrl yields gemini or openai; listing =             *)
(* "README.en.md" is the service listed there, with claude and ollama.     *)
(***************************************************************************)
Listings == {"AIService.ts", "README.en.md"}
ProvidersOf(listing) ==
    IF listing = "AIService.ts" THEN {"gemini", "openai"}
    ELSE {"gemini", "claude", "ollama", "openai"}

TextCommaRuns == <<",", "a", ",", ",", " ", "b", "\t", "c", ",">>
ParsedTexts == BodyTexts \cup {TextCommaRuns}

ParsedBodies ==
    {Body("null", "none", TRUE, <<>>), Body("object", "none", TRUE, <<>>)}
    \cup {Body("object", f, FALSE, <<>>) :
             f \in {"choices", "candidates", "content", "completion"}}
    \cup {Body("object", f, TRUE, t) :
             f \in {"choices", "candidates", "content", "completion"}, t \in ParsedTexts}

InitParse ==
    /\ InitCall
    /\ InitRec
    /\ InitHost
    /\ \E l \in Listings :
          input \in [fn : {"parseResponse"}, listing : {l}, data : ParsedBodies,
                     provider : ProvidersOf(l)]
    /\ output = NoOutput
    /\ fpc = "input"

Parse ==
    /\ fpc = "input"
    /\ input.fn = "parseResponse"
    /\ input.listing = "AIService.ts"
    /\ output' = [fn |-> "parseResponse", value |-> parseResponse(input.data, input.provider)]
    /\ fpc' = "done"
    /\ UNCHANGED <<input, callvars, cands, existing, reconciled, rpc, recorded, hostvars>>

Parse2 ==
    /\ fpc = "input"
    /\ input.fn = "parseResponse"
    /\ input.listing = "README.en.md"
    /\ output' = [fn |-> "parseResponse", value |-> parseResponse2(input.data, input.provider)]
    /\ fpc' = "done"
    /\ UNCHANGED <<input, callvars, cands, existing, reconciled, rpc, recorded, hostvars>>

NextParse == Parse \/ Parse2

SpecParse == InitParse /\ [][NextParse]_vars

(***************************************************************************)
(* The request check: a configuration and a document text drawn in         *)
(* InitRequest; the request generateTags hands to makeRequest is built.    *)
(***************************************************************************)
DocumentTexts == {"document text"}

InitRequest ==
    /\ InitCall
    /\ InitRec
    /\ InitHost
    /\ input \in [fn : {"buildRequest"}, listing : Listings,
                  config : {Config2(k, u, m, <<>>, p) :
                               k \in ApiKeys, u \in RequestUrls, m \in RequestModels,
                               p \in CustomPrompts},
                  text : DocumentTexts]
    /\ output = NoOutput
    /\ fpc = "input"

Request ==
    /\ fpc = "input"
    /\ input.fn = "buildRequest"
    /\ input.listing = "AIService.ts"
    /\ output' = [fn |-> "buildRequest",
                  provider |-> getProviderFromUrl(input.config),
                  request |-> BuildRequest(input.config, input.text)]
    /\ fpc' = "done"
    /\ UNCHANGED <<input, callvars, cands, existing, reconciled, rpc, recorded, hostvars>>

Request2 ==
    /\ fpc = "input"
    /\ input.fn = "buildRequest"
    /\ input.listing = "README.en.md"
    /\ output' = [fn |-> "buildRequest",
                  provider |-> getProviderFromUrl2(input.config),
                  request |-> BuildRequest2(input.config, input.text)]
    /\ fpc' = "done"
    /\ UNCHANGED <<input, callvars, cands, existing, reconciled, rpc, recorded, hostvars>>

NextRequest == Request \/ Request2

SpecRequest == InitRequest /\ [][NextRequest]_vars

(***************************************************************************)
(* Claims.                                                                 *)
(***************************************************************************)
ServerError(error) == error.type = "RequestError" /\ error.status >= 500
PayloadsDelivered == \A k \in 1..Len(log) : log[k].payload # "none"
ProviderOfCall == getProviderFromUrl(config)
BodyUsable == body.json = "object" /\ ~parseThrows(body, ProviderOfCall)
ValidConfig == config.apiKey # "" /\ config.apiUrl # <<>> /\ config.model # ""

\* C1: tag generation against a backend that answers 5xx on the first n <= 2
\* attempts and then succeeds makes exactly n+1 attempts, waits 1s, 2s, ...
\* between them and returns the success; a 404 is attempted exactly once.
C1_RetriesThenSuccess ==
    (pc = "done" /\ op \in GenerationOps /\ ValidConfig /\ PayloadsDelivered) =>
        /\ (Len(plan) <= 2 /\ \A k \in 1..Len(plan) : plan[k] \in {"s500", "s503"}) =>
              /\ Len(sent) = Len(plan) + 1
              /\ waits = [k \in 1..Len(plan) |-> IF k = 1 THEN 1000 ELSE 2000]
              /\ (BodyUsable => result.status = "ok")
        /\ (plan # <<>> /\ plan[1] = "s404") => Len(sent) = 1

\* C2: a failed attempt is followed by another attempt only when it failed
\* with a RequestError of status >= 500; any other failure ends the call at
\* once: no backoff wait, no further attempt, the error raised to the caller.
C2_RetryOnlyServerErrors ==
    \A k \in 1..Len(log) :
        /\ k < Len(sent) => ServerError(log[k].err)
        /\ ~ServerError(log[k].err) =>
              /\ k = Len(sent)
              /\ Len(waits) = k - 1
              /\ pc = "done"
              /\ op \in {"retryRequest", "generateTags"} =>
                    result = Result("error", <<>>, log[k].err)
              /\ op \in {"analyzeTags", "testConnection"} =>
                    /\ result.status = "error"
                    /\ result.err.message \in
                          {PrefixGenerateFailed \o log[k].err.message,
                           PrefixTestFailed \o log[k].err.message}

\* a retry happened and the next failure, a 4xx, was raised without a wait
C2_Witness ==
    /\ pc = "done" /\ op = "retryRequest"
    /\ Len(sent) = 2 /\ Len(log) = 2
    /\ log[1].err.status = 503
    /\ log[2].err.status = 404
    /\ waits = <<1000>>
    /\ result.status = "error" /\ result.err.status = 404

\* C3: one execution makes at most 3 attempts; when all three fail with a
\* 5xx the execution fails with the error of the last attempt; every attempt
\* sends the same url, headers and body.
C3_BoundedIdenticalAttempts ==
    /\ Len(sent) <= 3
    /\ \A k \in 1..Len(sent) : sent[k] = sent[1]
    /\ (pc = "done" /\ Len(log) = 3 /\ \A k \in 1..3 : ServerError(log[k].err)) =>
          /\ result.status = "error"
          /\ result.err = log[3].err

\* three 5xx failures with different payloads, the last one raised
C3_Witness ==
    /\ pc = "done" /\ op = "retryRequest"
    /\ Len(sent) = 3 /\ Len(log) = 3
    /\ log[1].err = Err("RequestError", 503, MsgPayload)
    /\ log[2].err = Err("RequestError", 503, MsgPayload)
    /\ log[3].err = Err("RequestError", 500, MsgRequestFailed)
    /\ result.err = Err("RequestError", 500, MsgRequestFailed)

\* C4: every tag-generation or connectivity-test call terminates; no call
\* stays pending forever in any phase.
C4_EveryCallTerminates == (pc # "idle" /\ ValidConfig) ~> (pc = "done")

\* C5: a non-success status s makes the attempt fail with a RequestError of
\* status s, with the payload's error.message when the payload is structured
\* and the default message otherwise, whether or not the body is JSON.
C5_NonSuccessIsRequestError ==
    \A k \in 1..Len(log) :
        (ValidConfig /\ log[k].status # 0 /\ ~responseOk(log[k].status) /\ log[k].payload # "none") =>
            /\ log[k].err.type = "RequestError"
            /\ log[k].err.status = log[k].status
            /\ log[k].err.message =
                  IF log[k].payload = "structured" THEN MsgPayload ELSE MsgRequestFailed

\* C6: with an empty apiKey, apiUrl or model, tag generation fails with a
\* configuration error and issues no network request.
C6_ConfigurationFailsFast ==
    (op \in HostOps /\ providerConfig.present
        /\ (providerConfig.apiKey = "" \/ providerConfig.apiUrl = <<>> \/ providerConfig.model = "")) =>
        /\ Len(sent) = 0
        /\ pc = "done"
        /\ result.status = "error"

\* C7: a successful response without the provider's text field makes
\* parseResponse fail (no tag list is returned), and the request is not sent
\* again.
C7_MissingFieldIsMalformed ==
    (pc = "done" /\ op \in GenerationOps /\ ValidConfig /\ body.json = "object"
        /\ body.field # ExpectedField(ProviderOfCall)) =>
        /\ result.status = "error"
        /\ Len(sent) = 1

\* C8: every failure of request execution or response parsing reaches the
\* caller of tag generation as an error with a message; none becomes a
\* successful result.
C8_FailuresReachCaller ==
    (pc = "done" /\ op \in GenerationOps /\ ValidConfig
        /\ (log # <<>> \/ body.json = "invalid" \/ parseThrows(body, ProviderOfCall))) =>
        /\ result.status = "error"
        /\ result.err.message # <<>>

\* C9: reconciliation keeps the length; position k holds an existing tag of
\* maximum similarity to cands[k] when that maximum is strictly above 0.7 and
\* cands[k] itself otherwise; ["Golang","databases"] against
\* ["golang","storage"] gives ["golang","databases"].
Above07(score) == 10 * score[1] > 7 * score[2]
Elems(s) == {s[k] : k \in 1..Len(s)}
IsBest(e, c, E) ==
    \A f \in Elems(E) : ~Greater(calculateSimilarity(c, f), calculateSimilarity(c, e))

C9_ReconcilePerPosition ==
    rpc = "done" =>
        /\ Len(reconciled) = Len(cands)
        /\ \A k \in 1..Len(cands) :
              IF \E e \in Elems(existing) : Above07(calculateSimilarity(cands[k], e))
              THEN /\ reconciled[k] \in Elems(existing)
                   /\ IsBest(reconciled[k], cands[k], existing)
              ELSE reconciled[k] = cands[k]
        /\ (cands = <<T_Golang, T_databases>> /\ existing = <<T_golang, T_storage>>) =>
              reconciled = <<T_golang, T_databases>>

C9_Witness ==
    /\ rpc = "done"
    /\ cands = <<T_Golang, T_databases>>
    /\ existing = <<T_golang, T_storage>>
    /\ reconciled = <<T_golang, T_databases>>

\* C10: the list the host gets back holds the vault's tag in place of every
\* candidate to which a vault tag is more than 0.7 similar.
C10_HostReconciles ==
    (pc = "done" /\ op \in HostOps /\ ValidConfig /\ result.status = "ok" /\ BodyUsable) =>
        LET parsed == parseResponse(body, ProviderOfCall).tags
        IN  /\ Len(result.tags) = Len(parsed)
            /\ \A k \in 1..Len(parsed) :
                  (\E e \in Elems(vault) : Above07(calculateSimilarity(parsed[k], e))) =>
                      result.tags[k] \in Elems(vault)

\* Upper- and lower-case forms of the letters that occur in the strings.
CasePairs == {<<"G", "g">>, <<"A", "a">>, <<"D", "d">>, <<"S", "s">>}
SameLetter(c, d) == c = d \/ <<c, d>> \in CasePairs \/ <<d, c>> \in CasePairs
EqualIgnoringCase(a, b) ==
    Len(a) = Len(b) /\ \A k \in 1..Len(a) : SameLetter(a[k], b[k])
Fold(c) == IF \E p \in CasePairs : p[1] = c
           THEN (CHOOSE p \in CasePairs : p[1] = c)[2] ELSE c
FoldedChars(a) == {Fold(a[k]) : k \in 1..Len(a)}
IsOne(score) == score[2] > 0 /\ score[1] = score[2]
Scored == fpc = "done" /\ output.fn = "calculateSimilarity"

\* C11: calculateSimilarity(a, b) is 1.0 whenever a and b are equal after
\* lowercasing, so in particular calculateSimilarity(a, a) = 1.0 for every a,
\* the empty string included.
C11_EqualStringsScoreOne ==
    (Scored /\ EqualIgnoringCase(input.str1, input.str2)) => IsOne(output.forward)

C11_Witness ==
    /\ Scored
    /\ input.str1 = <<>>
    /\ input.str2 = <<>>
    /\ IsOne(output.forward)

\* C12: calculateSimilarity(a, b) = calculateSimilarity(b, a) for all a, b.
C12_Symmetric == Scored => output.forward = output.backward

C12_Witness ==
    /\ Scored
    /\ input.str1 = T_golang
    /\ input.str2 = T_golangs
    /\ output.forward = <<5, 6>>
    /\ output.backward = <<5, 6>>

\* C13: the score is |chars(lower(a)) \cap chars(lower(b))| divided by
\* max(|chars(lower(a))|, |chars(lower(b))|), and 1.0 for strings equal after
\* lowercasing; it is a number in [0, 1] with a non-zero denominator, also
\* when one or both strings are empty.
C13_ScoreIsCharOverlap ==
    Scored =>
        LET A == FoldedChars(input.str1)
            B == FoldedChars(input.str2)
            larger == IF Cardinality(A) >= Cardinality(B)
                      THEN Cardinality(A) ELSE Cardinality(B)
            n == output.forward[1]
            d == output.forward[2]
        IN  /\ d > 0
            /\ 0 <= n /\ n <= d
            /\ IF EqualIgnoringCase(input.str1, input.str2)
               THEN n = d
               ELSE n * larger = Cardinality(A \cap B) * d

C13_Witness ==
    /\ Scored
    /\ input.str1 = <<>>
    /\ input.str2 = T_Golang
    /\ output.forward = <<0, 5>>

\* The text at the provider's path, as the specification tabulates it.
PathFields(provider) ==
    CASE provider = "gemini" -> {"candidates"}
      [] provider = "claude" -> {"content", "completion"}
      [] OTHER -> {"choices"}
PathText(data, provider) ==
    IF data.json = "object" /\ data.field \in PathFields(provider) THEN data.text ELSE <<>>
Blank == {" ", "\t", "\n"}
IsInk(c) == c \notin Blank
\* a comma of s stays when a piece precedes it directly and a piece follows
KeepsAt(s, k) ==
    s[k] # "," \/ (k > 1 /\ s[k - 1] # "," /\ \E j \in (k + 1)..Len(s) : s[j] # ",")
RECURSIVE Kept(_, _)
Kept(s, k) ==
    IF k > Len(s) THEN <<>>
    ELSE (IF KeepsAt(s, k) THEN <<s[k]>> ELSE <<>>) \o Kept(s, k + 1)
RECURSIVE Joined(_)
Joined(tags) ==
    IF tags = <<>> THEN <<>>
    ELSE IF Len(tags) = 1 THEN tags[1]
    ELSE tags[1] \o <<",">> \o Joined(Tail(tags))
Parsed == fpc = "done" /\ output.fn = "parseResponse" /\ output.value.ok

\* C14: parseResponse takes the text at the provider's path, splits it on
\* commas, trims the pieces, drops the empty ones and removes the whitespace
\* inside the others, in order: every tag is non-empty and free of whitespace
\* and commas, and the tags joined by commas are the text without its
\* whitespace and without empty pieces.  "ai, tags, golang" gives
\* ["ai","tags","golang"], "machine learning, nlp" gives ["machinelearning","nlp"].
C14_ParseSplitsAndSqueezes ==
    Parsed =>
        LET text == PathText(input.data, input.provider)
            tags == output.value.tags
        IN  /\ \A k \in 1..Len(tags) :
                  tags[k] # <<>> /\ \A j \in 1..Len(tags[k]) : tags[k][j] \notin Blank \cup {","}
            /\ Joined(tags) = Kept(SelectSeq(text, IsInk), 1)
            /\ text = TextAiTagsGolang =>
                  tags = <<<<"a", "i">>, <<"t", "a", "g", "s">>, T_golang>>
            /\ text = TextMachineLearning =>
                  tags = <<SelectSeq(SubSeq(TextMachineLearning, 1, 16), IsInk),
                           <<"n", "l", "p">>>>

C14_Witness ==
    /\ Parsed
    /\ input.listing = "README.en.md"
    /\ input.provider = "claude"
    /\ input.data = Body("object", "completion", TRUE, TextMachineLearning)
    /\ Len(output.value.tags) = 2
    /\ Len(output.value.tags[1]) = 15
    /\ output.value.tags[2] = <<"n", "l", "p">>

Built == fpc = "done" /\ output.fn = "buildRequest"
KnownHosts(listing) ==
    IF listing = "AIService.ts" THEN {"generativelanguage.googleapis.com"}
    ELSE {"generativelanguage.googleapis.com", "anthropic.com", "localhost:11434", "ollama"}
Mentions(url, sub) == \E k \in 1..Len(url) : url[k] = sub
Header(name) ==
    IF name \in DOMAIN output.request.headers THEN output.request.headers[name] ELSE <<>>
EffectivePrompt ==
    IF input.listing = "AIService.ts" THEN SYSTEM_PROMPT ELSE getSystemPrompt(input.config)
ChatBody ==
    /\ DOMAIN output.request.body = {"model", "messages"}
    /\ output.request.body.model = input.config.model
    /\ output.request.body.messages =
          <<[role |-> "system", content |-> EffectivePrompt],
            [role |-> "user", content |-> input.text]>>

\* C15: every apiUrl resolves to exactly one provider kind and never to an
\* error; a URL with none of the known host substrings resolves to the
\* OpenAI-compatible kind, and the request is then a POST to apiUrl itself
\* with a system and a user message and, when a key is present, Bearer
\* authorization.
C15_ResolutionIsTotal ==
    Built =>
        /\ output.provider \in ProvidersOf(input.listing)
        /\ (\A h \in KnownHosts(input.listing) : ~Mentions(input.config.apiUrl, h)) =>
              /\ output.provider = "openai"
              /\ output.request.method = "POST"
              /\ output.request.url = input.config.apiUrl
              /\ ChatBody
              /\ input.config.apiKey # "" =>
                    Header("authorization") = <<"Bearer ", input.config.apiKey>>

C15_Witness ==
    /\ Built
    /\ input.listing = "README.en.md"
    /\ input.config.apiUrl = UrlDeepSeek
    /\ input.config.apiKey = "sk-key"
    /\ output.provider = "openai"
    /\ output.request.url = UrlDeepSeek
    /\ Header("authorization") = <<"Bearer ", "sk-key">>

\* C16: a configuration of the local (Ollama-style) kind gets the
\* OpenAI-compatible body and a request without Authorization header and
\* without the API key in any header or in the URL, whatever apiKey holds.
C16_LocalSendsNoKey ==
    (Built /\ output.provider = "ollama") =>
        /\ ChatBody
        /\ output.request.url = input.config.apiUrl
        /\ \A name \in DOMAIN output.request.headers \ {"contentType"} : Header(name) = <<>>
        /\ input.config.apiKey # "" => ~Mentions(output.request.url, input.config.apiKey)

C16_Witness ==
    /\ Built
    /\ output.provider = "ollama"
    /\ input.config.apiUrl = UrlOllama
    /\ input.config.apiKey = "sk-key"
    /\ Header("authorization") = <<>>

\* C17: a configuration of the Claude kind gets a POST to apiUrl with header
\* x-api-key = apiKey and a body with the model, a system field holding the
\* effective system prompt, exactly one user message holding the document
\* text, and max_tokens of at most 256.
C17_ClaudeRequest ==
    (Built /\ output.provider = "claude" /\ input.config.apiKey # ""
       /\ input.config.model # "") =>
        /\ output.request.method = "POST"
        /\ output.request.url = input.config.apiUrl
        /\ Header("xApiKey") = input.config.apiKey
        /\ output.request.body.model = input.config.model
        /\ output.request.body.messages = <<[role |-> "user", content |-> input.text]>>
        /\ output.request.body.max_tokens <= 256
        /\ "system" \in DOMAIN output.request.body
        /\ output.request.body.system = EffectivePrompt

\* An apiUrl without the "/" that may end it.
Base(url) == IF url # <<>> /\ url[Len(url)] = "/" THEN SubSeq(url, 1, Len(url) - 1) ELSE url
KeyInQuery == \E k \in 1..Len(output.request.url) : output.request.url[k] = "?key="
KeyInHeader == Header("xGoogApiKey") # <<>>

\* C18: a configuration of the Gemini kind, the default apiUrl and model
\* included, gets the URL <apiUrl>/<model>:generateContent, the key through
\* one mechanism (header or key= query parameter), and a body holding the
\* prompt and the document text as two text parts of one content entry.
C18_GeminiRequest ==
    (Built /\ output.provider = "gemini" /\ input.config.apiKey # ""
       /\ input.config.model # "") =>
        LET path == Base(input.config.apiUrl) \o <<"/", input.config.model, ":generateContent">>
        IN  /\ \/ output.request.url = path
               \/ output.request.url = path \o <<"?key=", input.config.apiKey>>
            /\ KeyInQuery # KeyInHeader
            /\ output.request.body =
                  [contents |-> <<[parts |-> <<[text |-> EffectivePrompt],
                                              [text |-> input.text]>>]>>]

\* C19: the connectivity test sends its probe through the pipeline of tag
\* generation (the same request for the same configuration, the same
\* failure classification) including the parsing of the response, returns
\* success or failure only, and reports success exactly when that pipeline
\* does not fail: a reported success has read a body that parses.
C19_TestRunsThePipeline ==
    (pc = "done" /\ op = "testConnection" /\ ValidConfig) =>
        /\ result.tags = <<>>
        /\ \A k \in 1..Len(sent) : sent[k] = BuildRequest(config, content)
        /\ result.status = "ok" => BodyUsable

SameAsRecorded ==
    /\ recorded.made
    /\ providerConfig = recorded.providerConfig
    /\ vault = recorded.vault
    /\ content = recorded.content
    /\ body = recorded.body

\* C20: two tag-generation calls with the same document text, existing tags
\* and configuration, answered by the backend with the same response, give
\* the same tag sequence, whatever calls were made before or in between.
C20_SameInputsSameTags ==
    (pc = "done" /\ op \in HostOps /\ SameAsRecorded) => result = recorded.result

C20_Witness ==
    /\ pc = "done"
    /\ SameAsRecorded
    /\ recorded.between
    /\ vault = <<>>
    /\ body = Body("object", "candidates", TRUE, TextGolangDatabases)
    /\ result.status = "ok"
    /\ result.tags = <<T_Golang, T_databases>>
    /\ recorded.result = result

\* C24: a backoff wait happens only between two attempts: there are fewer
\* waits than attempts, and an execution whose three attempts all fail with
\* a 5xx raises the error after waiting 1s and 2s only.
C24_NoWaitAfterLastAttempt ==
    (pc = "done" /\ op = "retryRequest") =>
        /\ Len(waits) < Len(sent)
        /\ (Len(log) = 3 /\ \A k \in 1..3 : ServerError(log[k].err)) =>
              waits = <<1000, 2000>>

FirstBest(c, E) ==
    CHOOSE j \in 1..Len(E) :
        /\ IsBest(E[j], c, E)
        /\ \A h \in 1..(j - 1) : Greater(calculateSimilarity(c, E[j]), calculateSimilarity(c, E[h]))

\* C29: when several existing tags share the highest similarity (> 0.7) to
\* a candidate, the one that comes first in the existing-tag sequence is
\* returned: position k holds the first tag of maximum score.
C29_FirstOfTiesWins ==
    rpc = "done" =>
        \A k \in 1..Len(cands) :
            (\E e \in Elems(existing) : Above07(calculateSimilarity(cands[k], e))) =>
                reconciled[k] = existing[FirstBest(cands[k], existing)]

C29_Witness ==
    /\ rpc = "done"
    /\ cands = <<T_golangs>>
    /\ existing = <<T_Golang, T_golang>>
    /\ reconciled = <<T_Golang>>

\* C30: reconciliation is idempotent: reconciling the reconciled sequence
\* against the same existing tags returns it unchanged.
C30_ReconcileIdempotent ==
    rpc = "done" => reconcile(reconciled, existing) = reconciled

C30_Witness ==
    /\ rpc = "done"
    /\ cands = <<T_golang, T_databases>>
    /\ existing = <<T_golangs, T_golang>>
    /\ reconciled = <<T_golang, T_databases>>
    /\ reconcile(reconciled, existing) = reconciled

RECURSIVE CheckedTexts(_, _, _)
CheckedTexts(isChecked, texts, k) ==
    IF k > Len(texts) THEN <<>>
    ELSE (IF isChecked[k] THEN <<texts[k]>> ELSE <<>>) \o CheckedTexts(isChecked, texts, k + 1)

\* C22: after any sequence of check, uncheck and edit events, confirm calls
\* onSubmit exactly once, with the current text of every checked row and of
\* no unchecked row, in row order; cancel never calls onSubmit.
C22_ConfirmSubmitsCheckedRows ==
    /\ modal.clicked = "confirm" =>
          modal.submitted = <<CheckedTexts(modal.checked, modal.value, 1)>>
    /\ modal.clicked # "confirm" => modal.submitted = <<>>

C22_Witness ==
    /\ modal.clicked = "confirm"
    /\ modal.tags = <<"ai", "golang">>
    /\ modal.checked = <<FALSE, TRUE>>
    /\ modal.value = <<"golang", "ai">>
    /\ modal.submitted = <<<<"ai">>>>

ItemsOf(t) == {t[k] : k \in 1..Len(t)}
NoRepeat(t) == \A j, k \in 1..Len(t) : t[j] = t[k] => j = k
FirstAt(t, k) == \A j \in 1..(k - 1) : t[j] # t[k]
RECURSIVE Firsts(_, _)
Firsts(t, k) ==
    IF k > Len(t) THEN <<>>
    ELSE (IF FirstAt(t, k) THEN <<t[k]>> ELSE <<>>) \o Firsts(t, k + 1)
TagsBefore(text) ==
    IF text.hasYaml /\ text.hasTagsLine
    THEN Firsts(SelectSeq(text.tags, NotEmptyText), 1) ELSE <<>>
Alone(u) == updates[u].pc = "done" /\ \A w \in UpdateIds \ {u} : updates[w].pc = "idle"

\* C23: after updateFileFrontMatter(file, newTags) the frontmatter's tags are
\* the tags that were there before followed by the new tags not yet present,
\* none of them twice, whether the note had no frontmatter, a frontmatter
\* without tags line or one with a tags line, and also when newTags repeats
\* a tag.
C23_MergeKeepsAndDeduplicates ==
    \A u \in UpdateIds :
        Alone(u) =>
            /\ file.hasYaml /\ file.hasTagsLine
            /\ file.tags = Firsts(TagsBefore(updates[u].content) \o updates[u].newTags, 1)
            /\ NoRepeat(file.tags)

\* C25: when two updates of the same note run concurrently, the final note
\* holds the tags added by both, under every interleaving of their reads
\* and writes.
C25_NoLostUpdate ==
    (\A u \in UpdateIds : updates[u].pc = "done") =>
        \A u \in UpdateIds : ItemsOf(updates[u].newTags) \subseteq ItemsOf(file.tags)

StoredEntriesKept ==
    \A p \in SettingsProviders :
        settings.providerSettings[p].present =>
            settings'.providerSettings[p] = settings.providerSettings[p]

CommandSafety ==
    /\ (command.pc # "idle" /\ ~command.view) => sent = <<>> /\ pc = "idle"
    /\ modal # NoModal => (pc = "done" /\ result.status = "ok" /\ ~command.failure)
    /\ command.failure => (modal = NoModal /\ updates = NoUpdates)
    /\ updates # NoUpdates => (modal.clicked = "confirm" /\ result.status = "ok")

\* C27: in the generateTags command, without an active markdown view no
\* request is issued; otherwise the loading notice is eventually hidden on
\* every path; when analyzeTags fails the dialog is not opened and the note
\* is not modified, which happens only after a successful generation
\* followed by confirm.
C27_CommandNoticeAndDialog ==
    /\ []CommandSafety
    /\ (command.notice = "shown") ~> (command.notice = "hidden")

\* what call c gives when it is the only call: computed from the inputs it
\* was started with and the answer it got
AloneRequest(c) ==
    LET n == calls[c].inputs
    IN  requestFor(calls[c].op, configFor(calls[c].op, n.entry, n.tags, n.text), n.text)
AloneResult(c) ==
    LET n == calls[c].inputs
    IN  IF rejectsFor(calls[c].op, n.entry) THEN rejectionFor(calls[c].op)
        ELSE resultFor(calls[c].op, configFor(calls[c].op, n.entry, n.tags, n.text),
                       calls[c].answer)

\* C21: under every interleaving of two analyzeTags calls with changes of
\* the settings and of the vault's tags, the request of each call is built
\* from its own inputs and its result is the one it gives when run alone.
C21_CallsDoNotInterfere ==
    \A c \in CallIds :
        /\ calls[c].request # <<>> => calls[c].request = AloneRequest(c)
        /\ calls[c].pc = "done" => calls[c].result = AloneResult(c)

C21_Witness ==
    /\ calls[1].pc = "done"
    /\ calls[2].pc = "done"
    /\ calls[2].overlaps
    /\ calls[1].inputs.entry # calls[2].inputs.entry
    /\ calls[1].inputs.entry # settings.providerSettings[settings.provider]
    /\ calls[1].result.status = "ok"
    /\ calls[1].result.tags # <<>>
    /\ calls[2].result.status = "ok"
    /\ calls[2].result.tags # <<>>
    /\ calls[1].result.tags # calls[2].result.tags

====
